---- MODULE Spec2Model ----
(***************************************************************************)
(* Model of src/update_base_image.js: the BuildkiteImageUpdater class      *)
(* (constructor, updateBaseImageUrl, getOrganizationId,                    *)
(* updateClusterQueue, makeGraphQLRequest), the command line function      *)
(* main, getClipboardText and the clipboard entry block.                   *)
(*                                                                         *)
(* Text is a sequence of atoms (TLA+ strings); the empty string is <<>>    *)
(* and concatenation is \o.  A JavaScript value that may be undefined or   *)
(* null is a record [def, val].  JavaScript runs one callback at a time    *)
(* and drains the microtask queue after it, so an action is one callback    *)
(* together with the continuations of the awaits it settles.               *)
(***************************************************************************)
EXTENDS Integers, Sequences, FiniteSets, TLC

VARIABLES
    mode,       \* "cli": the file is run (require.main === module); "lib": it is required
    argv,       \* process.argv.slice(2)
    env,        \* process.env.BUILDKITE_API_TOKEN
    clipboard,  \* what getClipboardText returned: [read, text]
    cli,        \* position of the entry block: "load", "prompt", "done"
    proc,       \* [running, exitCode]
    updater,    \* the BuildkiteImageUpdater instance: [state, apiToken, error]
    inv,        \* the running invocation of updateBaseImageUrl
    reqs,       \* the invocation's two requests, "org" and "mut"
    wire,       \* the requests written to the network, in order
    log,        \* console output, in order
    invCount    \* invocations of updateBaseImageUrl started so far

vars == <<mode, argv, env, clipboard, cli, proc, updater, inv, reqs, wire, log, invCount>>

-----------------------------------------------------------------------------
(* Bounds of the model *)

MaxErrors == 2
MaxInvocations == 2
MaxArgs == 5

-----------------------------------------------------------------------------
(* Text and optional values *)

Some(v) == [def |-> TRUE, val |-> v]
None == [def |-> FALSE, val |-> <<>>]

Whitespace == {" ", "\n"}

RECURSIVE TrimStart(_)
TrimStart(s) ==
    IF s # <<>> /\ Head(s) \in Whitespace THEN TrimStart(Tail(s)) ELSE s

RECURSIVE TrimEnd(_)
TrimEnd(s) ==
    IF s # <<>> /\ s[Len(s)] \in Whitespace THEN TrimEnd(SubSeq(s, 1, Len(s) - 1)) ELSE s

Trim(s) == TrimEnd(TrimStart(s))

RECURSIVE Join(_, _)
Join(parts, sep) ==
    IF parts = <<>> THEN <<>>
    ELSE IF Len(parts) = 1 THEN parts[1]
    ELSE parts[1] \o sep \o Join(Tail(parts), sep)

Contains(s, t) ==
    \E k \in 0..(Len(s) - Len(t)) : SubSeq(s, k + 1, k + Len(t)) = t

SeqsUpTo(S, n) == UNION {[1..k -> S] : k \in 0..n}

\* `${x}` of a value that may be undefined
Display(opt) == IF opt.def THEN opt.val ELSE <<"undefined">>

-----------------------------------------------------------------------------
(* Structured responses.  A GraphQL response is a JSON object with the     *)
(* optional fields errors and data; the fields the two operations select   *)
(* are data.organization {id name slug} and                                *)
(* data.clusterQueueUpdate.clusterQueue {id name hostedAgents{...}}.       *)

ErrorEntries == {[message |-> <<"permission denied">>], [message |-> <<"invalid image">>]}

NoErrors == [def |-> FALSE, items |-> <<>>]
ErrorsValues ==
    {NoErrors} \cup {[def |-> TRUE, items |-> s] : s \in SeqsUpTo(ErrorEntries, MaxErrors)}

NoOrganization == [def |-> FALSE, id |-> None, name |-> <<>>]
Organizations ==
    {[def |-> TRUE, id |-> i, name |-> <<"Acme Inc">>] : i \in {Some(<<"org_9">>), None}}

\* agentImageRef stands for hostedAgents?.platformSettings?.linux?.agentImageRef:
\* undefined when any level of the chain is missing
NoQueue == [def |-> FALSE, id |-> <<>>, name |-> <<>>, agentImageRef |-> None]
ImageRefs == {None, Some(<<>>), Some(<<"img:v1">>), Some(<<"registry.example.com/img:v2">>)}
Queues ==
    {[def |-> TRUE, id |-> <<"q_5">>, name |-> <<"custom">>, agentImageRef |-> r] : r \in ImageRefs}

Doc(e, d, o, u, q) ==
    [errors |-> e, data |-> d, organization |-> o, clusterQueueUpdate |-> u, clusterQueue |-> q]

OrgDocs ==
    {Doc(e, d, NoOrganization, "absent", NoQueue) : e \in ErrorsValues, d \in {"absent", "null", "object"}}
    \cup {Doc(e, "object", o, "absent", NoQueue) : e \in ErrorsValues, o \in Organizations}

MutationDocs ==
    {Doc(e, d, NoOrganization, "absent", NoQueue) : e \in ErrorsValues, d \in {"absent", "null", "object"}}
    \cup {Doc(e, "object", NoOrganization, "object", q) : e \in ErrorsValues, q \in {NoQueue} \cup Queues}

DocsFor(w) == IF w = "org" THEN OrgDocs ELSE MutationDocs

\* The text of a JSON document travels as two fragments; a body that is cut
\* short, empty, or not JSON at all (an HTML error page) does not parse.
Html == [doc |-> Doc(NoErrors, "absent", NoOrganization, "absent", NoQueue), part |-> 0]
Stringify(d) == <<[doc |-> d, part |-> 1], [doc |-> d, part |-> 2]>>

IsJSON(text) ==
    /\ Len(text) = 2
    /\ text[1].part = 1
    /\ text[2].part = 2
    /\ text[1].doc = text[2].doc

JSONparse(text) ==
    IF IsJSON(text)
    THEN [ok |-> TRUE, value |-> text[1].doc, message |-> <<>>]
    ELSE [ok |-> FALSE, value |-> Html.doc, message |-> <<"Unexpected token in JSON">>]

BodiesFor(w) ==
    {Stringify(d) : d \in DocsFor(w)}
    \cup {SubSeq(Stringify(d), 1, 1) : d \in DocsFor(w)}
    \cup {<<>>, <<Html>>}

Heads ==
    { [statusCode |-> 200, statusMessage |-> <<"OK">>],
      [statusCode |-> 299, statusMessage |-> <<>>],
      [statusCode |-> 300, statusMessage |-> <<"Multiple Choices">>],
      [statusCode |-> 401, statusMessage |-> <<"Unauthorized">>] }
NoHead == [statusCode |-> 0, statusMessage |-> <<>>]

TransportFailures == {<<"getaddrinfo ENOTFOUND graphql.buildkite.com">>, <<"socket hang up">>}

\* An Error object: message is its literal text, raw the response body text
\* interpolated after it (empty for every error but the HTTP status error).
Err(message, raw) == [message |-> message, raw |-> raw]
NoError == [def |-> FALSE, val |-> Err(<<>>, <<>>)]

-----------------------------------------------------------------------------
(* Records of the program state *)

Calls == {"org", "mut"}

\* One makeGraphQLRequest call: the promise (state), the response stream (res,
\* head, body still to arrive, responseData) and whether req emitted 'error'.
NoReq ==
    [state |-> "unsent", res |-> "none", head |-> NoHead, body |-> <<>>,
     responseData |-> <<>>, errored |-> FALSE]

NoVariables == [slug |-> None, organizationId |-> None, queueId |-> None, imageUrl |-> None]

\* orgResponse keeps what getOrganizationId's response held (whether its errors
\* were non-empty, its organization); response is updateClusterQueue's response.
IdleInv ==
    [pc |-> "idle", orgSlug |-> <<>>, clusterId |-> <<>>, queueId |-> <<>>, imageUrl |-> <<>>,
     organizationId |-> None,
     orgResponse |-> [def |-> FALSE, errors |-> FALSE, organization |-> NoOrganization],
     response |-> [def |-> FALSE, val |-> Html.doc],
     error |-> NoError]

NoUpdater == [state |-> "none", apiToken |-> <<>>, error |-> NoError]
Running == [running |-> TRUE, exitCode |-> 0]
Exited(code) == [running |-> FALSE, exitCode |-> code]

Out(text) == [stream |-> "out", text |-> text, raw |-> <<>>]
ErrOut(text, raw) == [stream |-> "err", text |-> text, raw |-> raw]

-----------------------------------------------------------------------------
(* Error objects the code throws *)

ConfigError == Err(<<"BUILDKITE_API_TOKEN environment variable is required">>, <<>>)
NotFoundError(orgSlug) ==
    Err(<<"Organization \"">> \o orgSlug \o <<"\" not found or not accessible">>, <<>>)
\* a faulty variant: only the first entry's message is reported
GraphQLFirstError(response) ==
    Err(<<"GraphQL errors: ">> \o response.errors.items[1].message, <<>>)

GraphQLErrors(response) ==
    Err(<<"GraphQL errors: ">>
            \o Join([k \in 1..Len(response.errors.items) |-> response.errors.items[k].message],
                    <<", ">>),
        <<>>)
NoDataError == Err(<<"Failed to update cluster queue - no data returned">>, <<>>)
ParseFailure(message) == Err(<<"Failed to parse GraphQL response: ">> \o message, <<>>)
HttpFailure(head, responseData) ==
    Err(<<"HTTP ", ToString(head.statusCode), ": ">> \o head.statusMessage \o <<"\nResponse: ">>,
        responseData)
RequestFailure(message) == Err(<<"GraphQL request failed: ">> \o message, <<>>)

-----------------------------------------------------------------------------
(* Conditions and values the code computes *)

\* a faulty variant: only an unset variable counts as missing, an empty one passes
TokenUndefined(token) == ~token.def

TokenMissing(token) == ~token.def \/ token.val = <<>>

Construct ==
    IF TokenMissing(env)
    THEN [state |-> "threw", apiToken |-> <<>>, error |-> [def |-> TRUE, val |-> ConfigError]]
    ELSE [state |-> "constructed", apiToken |-> env.val, error |-> NoError]

\* a faulty variant: redirects are taken as success too
StatusBelow400(statusCode) == statusCode >= 200 /\ statusCode < 400

StatusOk(statusCode) == statusCode >= 200 /\ statusCode < 300

HasErrors(response) == response.errors.def /\ Len(response.errors.items) > 0

\* a faulty variant: only the data field is looked at
OrganizationMissingDataOnly(response) == response.data # "object"

OrganizationMissing(response) == ~(response.data = "object" /\ response.organization.def)

OrganizationIdOf(response) == response.organization.id

\* a faulty variant: only the data field is looked at
QueueMissingDataOnly(response) == response.data # "object"

QueueMissing(response) ==
    ~(response.data = "object" /\ response.clusterQueueUpdate = "object"
        /\ response.clusterQueue.def)

\* a faulty variant: the queue object is looked at before the errors
MutationVerdictDataFirst(response) ==
    IF QueueMissing(response) THEN "nodata"
    ELSE IF HasErrors(response) THEN "errors"
    ELSE "ok"

MutationVerdict(response) ==
    IF HasErrors(response) THEN "errors"
    ELSE IF QueueMissing(response) THEN "nodata"
    ELSE "ok"

\* a faulty variant: the requested reference is reported
NewImageRefRequested(updatedQueue) == Some(inv.imageUrl)

NewImageRef(updatedQueue) == updatedQueue.agentImageRef

ImageRefText(newImageRef) ==
    IF newImageRef.def /\ newImageRef.val # <<>> THEN newImageRef.val ELSE <<"Not set">>

StartLines(orgSlug, clusterId, queueId, imageUrl) ==
    << Out(<<"(rocket) Starting base image URL update via GraphQL API...">>),
       Out(<<"(package) Script Version: 2.0 (GraphQL API)">>),
       Out(<<"Organization: ">> \o orgSlug),
       Out(<<"Cluster ID: ">> \o clusterId),
       Out(<<"Queue ID: ">> \o queueId),
       Out(<<"Image URL: ">> \o imageUrl),
       Out(<<"\n(clipboard) Step 1: Getting organization ID...">>) >>

FoundLine(organization) ==
    Out(<<"(check) Found organization: ">> \o organization.name \o <<" (">>
            \o Display(organization.id) \o <<")">>)
Step2Line == Out(<<"\n(arrows) Step 2: Updating base image URL via GraphQL...">>)
UpdatedLine(updatedQueue) ==
    Out(<<"(check) Successfully updated queue \"">> \o updatedQueue.name \o <<"\" (">>
            \o updatedQueue.id \o <<")">>)
NewRefLine(newImageRef) == Out(<<"(check) New agent image reference: ">> \o ImageRefText(newImageRef))
SuccessLine == Out(<<"\n(ok) Base image URL updated successfully!">>)
FailurePrefix == <<"\n(cross) Error updating base image URL:", " ">>
FailureLine(error) == ErrOut(FailurePrefix \o error.message, error.raw)

WireEntry(op, variables, apiToken) ==
    [op |-> op, variables |-> variables, authorization |-> <<"Bearer ">> \o apiToken]

SendRequest(rq, w) == [rq EXCEPT ![w] = [NoReq EXCEPT !.state = "pending"]]

-----------------------------------------------------------------------------
(* updateBaseImageUrl and the methods it awaits *)

\* a faulty variant: the catch block reports the error and does not end the process
CatchNoExit(rq, cur, error) ==
    /\ inv' = [cur EXCEPT !.pc = "failed", !.error = [def |-> TRUE, val |-> error]]
    /\ reqs' = rq
    /\ log' = Append(log, FailureLine(error))
    /\ UNCHANGED <<wire, proc>>

\* a faulty variant: a rejected request is written again before the error is reported
CatchRetry(rq, cur, error) ==
    LET rejected == {w \in Calls : rq[w].state = "rejected"}
    IN  IF rejected # {} /\ Len(wire) < 3
        THEN /\ inv' = cur
             /\ reqs' = SendRequest(rq, CHOOSE w \in rejected : TRUE)
             /\ wire' = Append(wire, wire[Len(wire)])
             /\ UNCHANGED <<log, proc>>
        ELSE /\ inv' = [cur EXCEPT !.pc = "failed", !.error = [def |-> TRUE, val |-> error]]
             /\ reqs' = rq
             /\ log' = Append(log, FailureLine(error))
             /\ proc' = Exited(1)
             /\ UNCHANGED wire

\* catch block of updateBaseImageUrl
Catch(rq, cur, error) ==
    /\ inv' = [cur EXCEPT !.pc = "failed", !.error = [def |-> TRUE, val |-> error]]
    /\ reqs' = rq
    /\ log' = Append(log, FailureLine(error))
    /\ proc' = Exited(1)
    /\ UNCHANGED wire

\* updateBaseImageUrl up to its first await: the banner, getOrganizationId up
\* to its await, makeGraphQLRequest sending the query
StartInvocation(baseLog, apiToken, orgSlug, clusterId, queueId, imageUrl) ==
    /\ inv' = [IdleInv EXCEPT !.pc = "awaitOrg", !.orgSlug = orgSlug, !.clusterId = clusterId,
                              !.queueId = queueId, !.imageUrl = imageUrl]
    /\ log' = baseLog \o StartLines(orgSlug, clusterId, queueId, imageUrl)
    /\ reqs' = SendRequest([w \in Calls |-> NoReq], "org")
    /\ wire' = <<WireEntry("GetOrganization", [NoVariables EXCEPT !.slug = Some(orgSlug)], apiToken)>>
    /\ invCount' = invCount + 1

\* getOrganizationId after its await, then updateBaseImageUrl step 2 and
\* updateClusterQueue up to its await
OrgResolved(rq, response) ==
    LET cur == [inv EXCEPT !.orgResponse = [def |-> TRUE, errors |-> HasErrors(response),
                                              organization |-> response.organization]]
    IN  IF OrganizationMissing(response)
        THEN Catch(rq, cur, NotFoundError(inv.orgSlug))
        ELSE LET organizationId == OrganizationIdOf(response)
                 variables == [NoVariables EXCEPT !.organizationId = organizationId,
                                                  !.queueId = Some(inv.queueId),
                                                  !.imageUrl = Some(inv.imageUrl)]
             IN  /\ inv' = [cur EXCEPT !.pc = "awaitMutation", !.organizationId = organizationId]
                 /\ log' = log \o <<FoundLine(response.organization), Step2Line>>
                 /\ reqs' = SendRequest(rq, "mut")
                 /\ wire' = Append(wire, WireEntry("UpdateClusterQueue", variables, updater.apiToken))
                 /\ UNCHANGED proc

\* updateClusterQueue after its await, then the success line of updateBaseImageUrl
MutationResolved(rq, response) ==
    LET cur == [inv EXCEPT !.response = [def |-> TRUE, val |-> response]]
        verdict == MutationVerdict(response)
    IN  IF verdict = "errors" THEN Catch(rq, cur, GraphQLErrors(response))
        ELSE IF verdict = "nodata" THEN Catch(rq, cur, NoDataError)
        ELSE LET updatedQueue == response.clusterQueue
                 newImageRef == NewImageRef(updatedQueue)
             IN  /\ inv' = [cur EXCEPT !.pc = "succeeded"]
                 /\ log' = log \o <<UpdatedLine(updatedQueue), NewRefLine(newImageRef), SuccessLine>>
                 /\ reqs' = rq
                 /\ UNCHANGED <<wire, proc>>

Resolved(rq, w, response) ==
    IF w = "org" THEN OrgResolved(rq, response) ELSE MutationResolved(rq, response)

Rejected(rq, error) == Catch(rq, inv, error)

-----------------------------------------------------------------------------
(* makeGraphQLRequest: the transport callbacks *)

\* https.request's callback: the response head has arrived
Response(w) ==
    /\ proc.running
    /\ reqs[w].state # "unsent"
    /\ reqs[w].res = "none"
    /\ \E head \in Heads, body \in BodiesFor(w) :
         reqs' = [reqs EXCEPT ![w].res = "open", ![w].head = head, ![w].body = body,
                              ![w].responseData = <<>>]
    /\ UNCHANGED <<mode, argv, env, clipboard, cli, proc, updater, inv, wire, log, invCount>>

\* res.on('data')
Data(w) ==
    /\ proc.running
    /\ reqs[w].res = "open"
    /\ reqs[w].body # <<>>
    /\ reqs' = [reqs EXCEPT ![w].responseData = Append(@, Head(reqs[w].body)),
                            ![w].body = Tail(@)]
    /\ UNCHANGED <<mode, argv, env, clipboard, cli, proc, updater, inv, wire, log, invCount>>

\* res.on('end'), and what the settled promise resumes.  The handler's
\* responseData is dead once it returns.
End(w) ==
    /\ proc.running
    /\ reqs[w].res = "open"
    /\ reqs[w].body = <<>>
    /\ LET r == reqs[w]
           ended == [reqs EXCEPT ![w].res = "ended", ![w].responseData = <<>>]
           parsed == JSONparse(r.responseData)
       IN  IF r.state # "pending"
           THEN reqs' = ended /\ UNCHANGED <<inv, wire, log, proc>>
           ELSE IF StatusOk(r.head.statusCode)
           THEN IF parsed.ok
                THEN Resolved([ended EXCEPT ![w].state = "resolved"], w, parsed.value)
                ELSE Rejected([ended EXCEPT ![w].state = "rejected"], ParseFailure(parsed.message))
           ELSE Rejected([ended EXCEPT ![w].state = "rejected"], HttpFailure(r.head, r.responseData))
    /\ UNCHANGED <<mode, argv, env, clipboard, cli, updater, invCount>>

\* req.on('error'): at any time after the request was written, at most once
ReqError(w) ==
    /\ proc.running
    /\ reqs[w].state # "unsent"
    /\ ~reqs[w].errored
    /\ \E cause \in TransportFailures :
         LET rq == [reqs EXCEPT ![w].errored = TRUE]
         IN  IF reqs[w].state = "pending"
             THEN Rejected([rq EXCEPT ![w].state = "rejected"], RequestFailure(cause))
             ELSE reqs' = rq /\ UNCHANGED <<inv, wire, log, proc>>
    /\ UNCHANGED <<mode, argv, env, clipboard, cli, updater, invCount>>

-----------------------------------------------------------------------------
(* The command line *)

Flag == <<"--clipboard">>
Positional == << <<"acme">>, <<"c_1">>, <<"q_5">> >>

ArgChoices(k) ==
    IF k <= 3 THEN {Positional[k], Flag}
    ELSE IF k = 4 THEN {<<"img:v1">>, Flag, <<" ">>, <<>>}
    ELSE {<<"extra">>}

RECURSIVE ArgvsOfLen(_)
ArgvsOfLen(n) ==
    IF n = 0 THEN {<<>>}
    ELSE {Append(a, x) : a \in ArgvsOfLen(n - 1), x \in ArgChoices(n)}

Argvs ==
    {a \in UNION {ArgvsOfLen(n) : n \in 0..MaxArgs} :
        Cardinality({k \in DOMAIN a : a[k] = Flag}) <= 1}

Tokens == {None, Some(<<>>), Some(<<"bkua_secret">>)}

\* what execSync('pbpaste') does: throws, or returns the clipboard's text
PasteOutcomes ==
    { [ok |-> FALSE, out |-> <<>>],
      [ok |-> TRUE, out |-> <<>>],
      [ok |-> TRUE, out |-> <<"\n">>],
      [ok |-> TRUE, out |-> <<"registry.example.com/img:v2", "\n">>] }

GetClipboardText(paste) == IF paste.ok THEN Some(Trim(paste.out)) ELSE None

Truthy(text) == text.def /\ text.val # <<>>

NotRead == [read |-> FALSE, text |-> None]

Keys == {"y", "Y", "n", "N", "^C", "x"}

UsageLines ==
    << Out(<<"Usage: node update_base_image_url.js <org_slug> <cluster_id> <queue_id> <image_url>">>),
       Out(<<>>),
       Out(<<"Example:">>),
       Out(<<"  node update_base_image_url.js my-org cluster-123 queue-456 \"my-registry.com/my-image:latest\"">>),
       Out(<<>>),
       Out(<<"Prerequisites:">>),
       Out(<<"  - Set BUILDKITE_API_TOKEN environment variable with a token that has:">>),
       Out(<<"    * GraphQL scope enabled">>),
       Out(<<"    * Write Clusters (write_clusters) permission">>),
       Out(<<"  - You must have manage_cluster permission for the specified cluster">>) >>

\* console output followed by process.exit(1)
Exit1(lines) ==
    /\ log' = log \o lines
    /\ proc' = Exited(1)
    /\ UNCHANGED <<updater, inv, reqs, wire, invCount>>

\* main declares no parameters and reads process.argv: what a caller passes is dropped
MainArgs(passed) == argv

\* main().  A constructor that throws rejects the promise main returns, which
\* nothing handles: the runtime ends the process with code 1, or (older
\* runtimes) warns and lets it run out.
Main(lines, passed) ==
    LET args == MainArgs(passed)
    IN  IF Len(args) # 4 THEN Exit1(lines \o UsageLines)
        ELSE IF args[4] = <<>> \/ Len(Trim(args[4])) = 0
        THEN Exit1(lines \o <<ErrOut(<<"(cross) Error: Image URL cannot be empty">>, <<>>)>>)
        ELSE IF Construct.state = "threw"
        THEN /\ updater' = Construct
             /\ log' = log \o lines
             /\ \E ends \in BOOLEAN : proc' = IF ends THEN Exited(1) ELSE proc
             /\ UNCHANGED <<inv, reqs, wire, invCount>>
        ELSE /\ updater' = Construct
             /\ StartInvocation(log \o lines, Construct.apiToken, args[1], args[2], args[3], args[4])
             /\ UNCHANGED proc

IsNotFlag(arg) == arg # Flag

\* the block under require.main === module
CliEntry ==
    /\ mode = "cli"
    /\ cli = "load"
    /\ proc.running
    /\ IF Len(argv) = 3 /\ \E k \in DOMAIN argv : argv[k] = Flag
       THEN \E paste \in PasteOutcomes :
              LET clipboardText == GetClipboardText(paste)
              IN  /\ clipboard' = [read |-> TRUE, text |-> clipboardText]
                  /\ cli' = "done"
                  /\ IF Truthy(clipboardText)
                     THEN Main(<<Out(<<"(clipboard) Using clipboard text as image URL: ">>
                                        \o clipboardText.val)>>,
                               SelectSeq(argv, IsNotFlag) \o <<clipboardText.val>>)
                     ELSE Exit1(<<ErrOut(<<"(cross) Could not read from clipboard">>, <<>>)>>)
       ELSE IF Len(argv) = 3
       THEN \E paste \in PasteOutcomes :
              LET clipboardText == GetClipboardText(paste)
              IN  /\ clipboard' = [read |-> TRUE, text |-> clipboardText]
                  /\ IF Truthy(clipboardText)
                     THEN \E tty \in BOOLEAN :
                            LET lines == << Out(<<"(clipboard) Clipboard contains: ">>
                                                    \o clipboardText.val),
                                            Out(<<"Use this as the image URL? (y/n)">>) >>
                            IN  IF tty
                                THEN /\ cli' = "prompt"
                                     /\ log' = log \o lines
                                     /\ UNCHANGED <<proc, updater, inv, reqs, wire, invCount>>
                                ELSE \* process.stdin.setRawMode is not a function
                                     /\ cli' = "done"
                                     /\ Exit1(lines)
                     ELSE cli' = "done" /\ Main(<<>>, <<>>)
       ELSE /\ clipboard' = clipboard
            /\ cli' = "done"
            /\ Main(<<>>, <<>>)
    /\ UNCHANGED <<mode, argv, env>>

\* process.stdin.on('data') of the prompt
StdinData ==
    /\ cli = "prompt"
    /\ proc.running
    /\ inv.pc = "idle"
    /\ \E key \in Keys :
         IF key \in {"y", "Y"}
         THEN Main(<<Out(<<"\n(check) Using clipboard text">>)>>, argv \o <<clipboard.text.val>>)
         ELSE IF key \in {"n", "N"}
         THEN Exit1(<<Out(<<"\n(cross) Please provide the image URL as the 4th argument">>)>>)
         ELSE IF key = "^C"
         THEN Exit1(<<>>)
         ELSE UNCHANGED <<log, proc, updater, inv, reqs, wire, invCount>>
    /\ UNCHANGED <<mode, argv, env, clipboard, cli>>

-----------------------------------------------------------------------------
(* The class used by a program that requires the module.  One invocation   *)
(* runs at a time; wire and log hold what the running invocation wrote.    *)

Slugs == {<<"acme">>, <<"other">>}

LibConstruct ==
    /\ mode = "lib"
    /\ proc.running
    /\ updater.state = "none"
    /\ updater' = Construct
    /\ UNCHANGED <<mode, argv, env, clipboard, cli, proc, inv, reqs, wire, log, invCount>>

LibInvoke ==
    /\ mode = "lib"
    /\ proc.running
    /\ updater.state = "constructed"
    /\ inv.pc \in {"idle", "succeeded"}
    /\ invCount < MaxInvocations
    /\ \E orgSlug \in Slugs :
         StartInvocation(<<>>, updater.apiToken, orgSlug, <<"c_1">>, <<"q_5">>, <<"img:v1">>)
    /\ UNCHANGED <<mode, argv, env, clipboard, cli, proc, updater>>

\* the event loop runs empty: the process ends with code 0
Drain ==
    /\ proc.running
    /\ IF mode = "cli" THEN cli = "done" ELSE updater.state # "none"
    /\ \A w \in Calls : reqs[w].state # "pending"
    /\ proc' = Exited(0)
    /\ UNCHANGED <<mode, argv, env, clipboard, cli, updater, inv, reqs, wire, log, invCount>>

-----------------------------------------------------------------------------

Init ==
    /\ mode \in {"cli", "lib"}
    /\ argv \in IF mode = "cli" THEN Argvs ELSE {<<>>}
    /\ env \in Tokens
    /\ clipboard = NotRead
    /\ cli = "load"
    /\ proc = Running
    /\ updater = NoUpdater
    /\ inv = IdleInv
    /\ reqs = [w \in Calls |-> NoReq]
    /\ wire = <<>>
    /\ log = <<>>
    /\ invCount = 0

Next ==
    \/ CliEntry
    \/ StdinData
    \/ LibConstruct
    \/ LibInvoke
    \/ \E w \in Calls : Response(w)
    \/ \E w \in Calls : Data(w)
    \/ \E w \in Calls : End(w)
    \/ \E w \in Calls : ReqError(w)
    \/ Drain

Spec == Init /\ [][Next]_vars

-----------------------------------------------------------------------------
(* What the claims speak of *)

IsFailureLine(line) ==
    /\ line.stream = "err"
    /\ Len(line.text) >= Len(FailurePrefix)
    /\ SubSeq(line.text, 1, Len(FailurePrefix)) = FailurePrefix

SuccessReports == Cardinality({k \in DOMAIN log : log[k] = SuccessLine})
FailureReports == Cardinality({k \in DOMAIN log : IsFailureLine(log[k])})

Sent(op) == {k \in DOMAIN wire : wire[k].op = op}

EndedInFailure == inv.pc = "failed" /\ proc = Exited(1) /\ FailureReports = 1 /\ SuccessReports = 0

MessagesOf(response) ==
    [k \in 1..Len(response.errors.items) |-> response.errors.items[k].message]

ErrorsNonEmpty(response) == response.errors.def /\ response.errors.items # <<>>

QueueObjectAbsent(response) ==
    \/ response.data # "object"
    \/ response.clusterQueueUpdate # "object"
    \/ ~response.clusterQueue.def

\* the 'end' callback of call w runs on a promise that is still pending
EndsPending(w) ==
    /\ reqs[w].res = "open"
    /\ reqs'[w].res = "ended"
    /\ reqs[w].state = "pending"

Between200And299(statusCode) == statusCode \in 200..299

-----------------------------------------------------------------------------
(* C1 *)

\* C1, as stated: a mutation response with a non-empty errors collection ends
\* the invocation as a failure whose message equals the entries' messages
\* joined by ", " in their order.
C1_MessageIsJoinedErrors ==
    (inv.response.def /\ ErrorsNonEmpty(inv.response.val))
        => /\ EndedInFailure
           /\ inv.error.val.message = Join(MessagesOf(inv.response.val), <<", ">>)

\* C1, amended: a mutation response with a non-empty errors collection always
\* ends the invocation as a failure, never a success, also with a populated
\* data field; received with a 2xx status the failure message is
\* "GraphQL errors: " followed by the entries' messages joined by ", " in their
\* order; received with another status it is the HTTP status error that
\* carries the body unparsed.
C1_FailsWithPrefixedJoinedErrors ==
    /\ (inv.response.def /\ ErrorsNonEmpty(inv.response.val))
        => /\ EndedInFailure
           /\ inv.error.val.message
                = <<"GraphQL errors: ">> \o Join(MessagesOf(inv.response.val), <<", ">>)
           /\ inv.error.val.raw = <<>>
           /\ log[Len(log)] = ErrOut(FailurePrefix \o inv.error.val.message, <<>>)
    /\ (/\ reqs["mut"].res = "ended"
        /\ ~Between200And299(reqs["mut"].head.statusCode)
        /\ inv.error.def
        /\ IsJSON(inv.error.val.raw)
        /\ ErrorsNonEmpty(JSONparse(inv.error.val.raw).value))
        => /\ EndedInFailure
           /\ ~inv.response.def
           /\ Head(inv.error.val.message) = "HTTP "

\* a populated data field and two different messages, received with status 200
C1_Witness ==
    /\ inv.response.def
    /\ Len(inv.response.val.errors.items) = 2
    /\ inv.response.val.errors.items[1] # inv.response.val.errors.items[2]
    /\ inv.response.val.clusterQueue.def
    /\ reqs["mut"].head.statusCode = 200
    /\ inv.pc = "failed"

-----------------------------------------------------------------------------
(* C2 *)

\* C2: with BUILDKITE_API_TOKEN absent or empty the constructor, whenever it
\* runs, throws the configuration error, and no request is ever written: not
\* the organization query, not the mutation.
C2_NoTokenNoRequest ==
    (~env.def \/ env.val = <<>>)
        => /\ updater.state \in {"none", "threw"}
           /\ updater.state = "threw" => updater.error = [def |-> TRUE, val |-> ConfigError]
           /\ wire = <<>>
           /\ invCount = 0
           /\ inv.pc = "idle"
           /\ \A w \in Calls : reqs[w].state = "unsent"

\* the command line got as far as the constructor with an empty token
C2_Witness ==
    /\ mode = "cli"
    /\ env = Some(<<>>)
    /\ Len(argv) = 4
    /\ updater.state = "threw"
    /\ ~proc.running

-----------------------------------------------------------------------------
(* C3 *)

\* C3: for either call, an 'end' with a status outside [200,300) rejects with
\* the error that carries the status code and the raw body text, and nothing
\* of the body is taken as a structured response; only a status in [200,300)
\* leads to the body being parsed and returned.
C3_Non2xxIsTransportError ==
    [][\A w \in Calls :
         EndsPending(w) =>
           IF Between200And299(reqs[w].head.statusCode)
           THEN reqs'[w].state = "resolved"
                    => /\ IsJSON(reqs[w].responseData)
                       /\ w = "mut" => inv'.response = [def |-> TRUE, val |-> reqs[w].responseData[1].doc]
                       /\ w = "org" => /\ inv'.orgResponse.def
                                       /\ inv'.orgResponse.organization
                                            = reqs[w].responseData[1].doc.organization
           ELSE /\ reqs'[w].state = "rejected"
                /\ inv'.pc = "failed"
                /\ inv'.error.def
                /\ inv'.error.val.message
                     = <<"HTTP ", ToString(reqs[w].head.statusCode), ": ">>
                         \o reqs[w].head.statusMessage \o <<"\nResponse: ">>
                /\ inv'.error.val.raw = reqs[w].responseData
                /\ inv'.response = inv.response
                /\ inv'.orgResponse = inv.orgResponse
                /\ wire' = wire]_vars

\* status 300 with a body that is a well-formed response with a queue in it
C3_Witness ==
    /\ reqs["mut"].res = "ended"
    /\ reqs["mut"].head.statusCode = 300
    /\ inv.pc = "failed"
    /\ IsJSON(inv.error.val.raw)
    /\ JSONparse(inv.error.val.raw).value.clusterQueue.def

-----------------------------------------------------------------------------
(* C4 *)

NoDataMessage == <<"Failed to update cluster queue - no data returned">>

\* the nested success object as the claim describes it: the queue with its
\* identity and the confirmed image reference
CarriesIdentityAndImageRef(response) ==
    /\ ~QueueObjectAbsent(response)
    /\ response.clusterQueue.id # <<>>
    /\ response.clusterQueue.agentImageRef.def

\* C4, as stated: a mutation response with empty or absent errors that lacks
\* the queue object carrying the queue identity and the confirmed image
\* reference ends the invocation as a failure saying "no data returned",
\* never as a success.
C4_NoIdentityAndRefNoSuccess ==
    (/\ inv.response.def
     /\ ~ErrorsNonEmpty(inv.response.val)
     /\ ~CarriesIdentityAndImageRef(inv.response.val))
        => /\ EndedInFailure
           /\ inv.error.val.message = NoDataMessage

\* C4, amended: a mutation response with empty or absent errors in which
\* data.clusterQueueUpdate.clusterQueue is missing or null ends the invocation
\* as a failure saying "no data returned", never as a success.  (A queue
\* object without the image reference is not such a response.)
C4_NoQueueObjectNoSuccess ==
    (/\ inv.response.def
     /\ ~ErrorsNonEmpty(inv.response.val)
     /\ QueueObjectAbsent(inv.response.val))
        => /\ EndedInFailure
           /\ inv.error.val.message = NoDataMessage
           /\ log[Len(log)] = ErrOut(FailurePrefix \o NoDataMessage, <<>>)

\* clusterQueueUpdate is there, its clusterQueue is null, errors is an empty array
C4_Witness ==
    /\ inv.response.def
    /\ inv.response.val.errors = [def |-> TRUE, items |-> <<>>]
    /\ inv.response.val.clusterQueueUpdate = "object"
    /\ ~inv.response.val.clusterQueue.def
    /\ inv.pc = "failed"

-----------------------------------------------------------------------------
(* C5 *)

NewRefPrefix == <<"(check) New agent image reference: ">>
NewRefLines ==
    {k \in DOMAIN log : /\ log[k].stream = "out"
                        /\ log[k].text # <<>>
                        /\ Head(log[k].text) = Head(NewRefPrefix)}

ConfirmedRef == inv.response.val.clusterQueue.agentImageRef

\* C5, as stated: whenever the invocation succeeds, the outcome message
\* contains the confirmed image reference of the mutation response.
C5_SuccessShowsConfirmedRef ==
    inv.pc = "succeeded"
        => /\ ConfirmedRef.def
           /\ \E k \in NewRefLines : log[k].text = NewRefPrefix \o ConfirmedRef.val

\* C5, amended: whenever the invocation succeeds, the outcome message holds
\* one image reference: the returned queue's agentImageRef when the response
\* has a non-empty one, also when it differs from the requested imageUrl, and
\* the words "Not set" when the response has none or an empty one; it is
\* never taken from the requested imageUrl.
C5_SuccessShowsReturnedRefOrNotSet ==
    inv.pc = "succeeded"
        => /\ Cardinality(NewRefLines) = 1
           /\ \A k \in NewRefLines :
                /\ log[k].text
                     = NewRefPrefix \o (IF ConfirmedRef.def /\ ConfirmedRef.val # <<>>
                                        THEN ConfirmedRef.val
                                        ELSE <<"Not set">>)
                /\ (~ConfirmedRef.def \/ ConfirmedRef.val # inv.imageUrl)
                     => ~Contains(log[k].text, inv.imageUrl)
           /\ log[Len(log)] = SuccessLine

\* the response confirms another reference than the one requested
C5_Witness ==
    /\ inv.pc = "succeeded"
    /\ inv.imageUrl = <<"img:v1">>
    /\ ConfirmedRef = Some(<<"registry.example.com/img:v2">>)

-----------------------------------------------------------------------------
(* C6 *)

Completed(w) == reqs[w].res = "ended" \/ reqs[w].errored

\* C6: an invocation whose HTTP calls each complete (a full response or a
\* transport error) has produced exactly one outcome, the success report
\* (exit code 0 path) or the failure report followed by exit code 1; there
\* are never two, whatever the order of 'data', 'end' and 'error'.
C6_ExactlyOneOutcome ==
    /\ SuccessReports + FailureReports <= 1
    /\ (inv.pc # "idle" /\ \A w \in Calls : reqs[w].state # "unsent" => Completed(w))
        => SuccessReports + FailureReports = 1
    /\ FailureReports = 1
        => /\ proc = Exited(1)
           /\ inv.pc = "failed"
           /\ IsFailureLine(log[Len(log)])
    /\ SuccessReports = 1
        => /\ proc.exitCode = 0
           /\ inv.pc = "succeeded"
           /\ log[Len(log)] = SuccessLine
    /\ inv.pc = "succeeded" => SuccessReports = 1
    /\ inv.pc = "failed" => FailureReports = 1

\* both calls got their 'end' and afterwards their 'error'
C6_Witness ==
    /\ inv.pc = "succeeded"
    /\ \A w \in Calls : reqs[w].res = "ended" /\ reqs[w].errored
    /\ SuccessReports = 1
    /\ proc = Exited(0)

-----------------------------------------------------------------------------
(* C7 *)

\* C7: the mutation is written only after this invocation's organization
\* query resolved with an organization object, and its organizationId is the
\* id of that response; a query response without an organization object
\* fails the invocation with the organization-not-found error and no
\* mutation is written.
C7_MutationAfterOrganization ==
    /\ \A k \in Sent("UpdateClusterQueue") :
         /\ k > 1
         /\ wire[1].op = "GetOrganization"
         /\ wire[1].variables.slug = Some(inv.orgSlug)
         /\ reqs["org"].state = "resolved"
         /\ inv.orgResponse.def
         /\ inv.orgResponse.organization.def
         /\ wire[k].variables.organizationId = inv.orgResponse.organization.id
         /\ wire[k].variables.queueId = Some(inv.queueId)
    /\ (inv.orgResponse.def /\ ~inv.orgResponse.organization.def)
        => /\ EndedInFailure
           /\ inv.error.val.message
                = <<"Organization \"">> \o inv.orgSlug \o <<"\" not found or not accessible">>
           /\ Sent("UpdateClusterQueue") = {}
           /\ reqs["mut"].state = "unsent"

\* the second invocation on one instance, for another slug than the first could have had
C7_Witness ==
    /\ invCount = 2
    /\ inv.orgSlug = <<"other">>
    /\ Sent("UpdateClusterQueue") # {}
    /\ inv.organizationId = Some(<<"org_9">>)

-----------------------------------------------------------------------------
(* C8 *)

\* C8, as stated: for the organization query as for the mutation, a response
\* with a non-empty errors collection is a failure even when its data field
\* is populated; after such an organization-query response no mutation is
\* written.
C8_ErrorsFailEitherCall ==
    /\ (inv.orgResponse.def /\ inv.orgResponse.errors)
        => /\ inv.pc = "failed"
           /\ Sent("UpdateClusterQueue") = {}
    /\ (inv.response.def /\ ErrorsNonEmpty(inv.response.val)) => inv.pc = "failed"

\* C8, amended: the mutation's response is validated by its errors collection
\* first and the queue object only afterwards (non-empty errors fail with the
\* errors' message whether or not the queue object is there); the
\* organization query's response is validated by data.organization alone: its
\* errors collection is not looked at, so with an organization object the
\* invocation goes on to the mutation, and without one it fails as
\* organization not found.
C8_ErrorsFirstForMutationOnly ==
    /\ inv.response.def
        => /\ ErrorsNonEmpty(inv.response.val)
                => /\ inv.pc = "failed"
                   /\ Head(inv.error.val.message) = "GraphQL errors: "
           /\ (~ErrorsNonEmpty(inv.response.val) /\ QueueObjectAbsent(inv.response.val))
                => /\ inv.pc = "failed"
                   /\ inv.error.val.message = NoDataMessage
           /\ (~ErrorsNonEmpty(inv.response.val) /\ ~QueueObjectAbsent(inv.response.val))
                => inv.pc = "succeeded"
    /\ inv.orgResponse.def
        => IF inv.orgResponse.organization.def
           THEN /\ Sent("UpdateClusterQueue") # {}
                /\ reqs["mut"].state # "unsent"
           ELSE /\ inv.pc = "failed"
                /\ Head(inv.error.val.message) = "Organization \""

\* the organization query's response had errors and an organization, and the
\* mutation was written
C8_Witness ==
    /\ inv.orgResponse.def
    /\ inv.orgResponse.errors
    /\ inv.orgResponse.organization.def
    /\ Sent("UpdateClusterQueue") # {}

-----------------------------------------------------------------------------
(* C9 *)

\* C9: an invocation writes at most one organization query and at most one
\* mutation, each request written is one makeGraphQLRequest call, and once
\* the invocation has failed nothing more is written.
C9_NoRetry ==
    /\ [](/\ Cardinality(Sent("GetOrganization")) <= 1
          /\ Cardinality(Sent("UpdateClusterQueue")) <= 1
          /\ Len(wire) = Cardinality({w \in Calls : reqs[w].state # "unsent"})
          /\ (inv.pc = "failed" /\ reqs["org"].state = "rejected") => Len(wire) = 1
          /\ inv.pc = "failed" => ~proc.running)
    /\ [][inv.pc = "failed" => (wire' = wire /\ reqs' = reqs /\ inv' = inv)]_vars

\* a failure of each kind in the second call: both requests were written, once each
C9_Witness ==
    /\ inv.pc = "failed"
    /\ reqs["mut"].state = "rejected"
    /\ Len(wire) = 2
    /\ Head(inv.error.val.message) = "Failed to parse GraphQL response: "

-----------------------------------------------------------------------------
(* C10 *)

ClipboardHasText == clipboard.read /\ clipboard.text.def /\ clipboard.text.val # <<>>

AnsweredYes == \E k \in DOMAIN log : log[k] = Out(<<"\n(check) Using clipboard text">>)

\* C10: started without the image reference and with the clipboard
\* convenience (the --clipboard flag, or three arguments and the answer 'y'),
\* the clipboard holding text, updateBaseImageUrl is invoked with that text as
\* imageUrl; and "--clipboard" itself is never sent as an image reference.
C10_ClipboardTextIsImageUrl ==
    /\ (/\ mode = "cli"
        /\ cli = "done"
        /\ Len(argv) = 3
        /\ \E k \in DOMAIN argv : argv[k] = Flag
        /\ ClipboardHasText)
        => (invCount = 1 /\ inv.imageUrl = clipboard.text.val)
    /\ (mode = "cli" /\ Len(argv) = 3 /\ ClipboardHasText /\ AnsweredYes)
        => (invCount = 1 /\ inv.imageUrl = clipboard.text.val)
    /\ \A k \in DOMAIN wire : wire[k].variables.imageUrl # Some(Flag)
    /\ inv.imageUrl # Flag

====
